---------------------------- MODULE Spec2Model ----------------------------
(***************************************************************************)
(* Model of the SEO content analyzer (streamlit_app/app.py and utils/).    *)
(*                                                                         *)
(* Part 1: Python float arithmetic (IEEE-754 binary64, round to nearest,   *)
(*         ties to even) as used by improved_similarity.                   *)
(* Part 2: text functions (str.split, str.lower, re.findall, ' '.join).    *)
(* Part 3: improved_similarity and the corpus merge.                       *)
(* Part 4: scrape_and_parse_url (app.py and utils/parser.py).              *)
(* Part 5: calculate_features and the analyze flow.                        *)
(* Then the state, and four specifications with the claims checked under   *)
(* each: SpecSim, SpecScrape, SpecFeat and SpecFlow.                       *)
(***************************************************************************)
EXTENDS Integers, Sequences, FiniteSets, TLC

(***************************************************************************)
(* Part 1.  Natural numbers of arbitrary size, as little-endian sequences  *)
(* of limbs, so that 53-bit mantissas and their 106-bit products can be    *)
(* computed exactly.  The empty sequence is zero; the last limb is never 0.*)
(***************************************************************************)
LimbBits == 15

Base == 2 ^ LimbBits

Limb(a, i) == IF i <= Len(a) THEN a[i] ELSE 0

RECURSIVE Trim(_)
Trim(a) ==
    IF a = << >> THEN a
    ELSE IF a[Len(a)] = 0 THEN Trim(SubSeq(a, 1, Len(a) - 1)) ELSE a

RECURSIVE AddFrom(_, _, _, _)
AddFrom(a, b, i, c) ==
    IF i > Len(a) /\ i > Len(b)
    THEN IF c = 0 THEN << >> ELSE << c >>
    ELSE LET s == Limb(a, i) + Limb(b, i) + c
         IN  << s % Base >> \o AddFrom(a, b, i + 1, s \div Base)

BigAdd(a, b) == AddFrom(a, b, 1, 0)

RECURSIVE SubFrom(_, _, _, _)
SubFrom(a, b, i, c) ==
    IF i > Len(a) THEN << >>
    ELSE LET s == Limb(a, i) - Limb(b, i) - c
         IN  IF s < 0 THEN << s + Base >> \o SubFrom(a, b, i + 1, 1)
                      ELSE << s >> \o SubFrom(a, b, i + 1, 0)

\* a - b, for a >= b
BigSub(a, b) == Trim(SubFrom(a, b, 1, 0))

RECURSIVE MulSmallFrom(_, _, _, _)
MulSmallFrom(a, k, i, c) ==
    IF i > Len(a)
    THEN IF c = 0 THEN << >> ELSE << c >>
    ELSE LET s == a[i] * k + c
         IN  << s % Base >> \o MulSmallFrom(a, k, i + 1, s \div Base)

\* a * k, for 0 <= k < Base
BigMulSmall(a, k) == Trim(MulSmallFrom(a, k, 1, 0))

ZeroLimbs(n) == [i \in 1..n |-> 0]

ShlLimbs(a, n) == IF a = << >> THEN a ELSE ZeroLimbs(n) \o a

RECURSIVE MulFrom(_, _, _)
MulFrom(a, b, j) ==
    IF j > Len(b) THEN << >>
    ELSE BigAdd(ShlLimbs(BigMulSmall(a, b[j]), j - 1), MulFrom(a, b, j + 1))

BigMul(a, b) == MulFrom(a, b, 1)

\* quotient and remainder of a by k, for 0 < k < Base; limbs from the top down
RECURSIVE DivSmallFrom(_, _, _, _)
DivSmallFrom(a, k, i, r) ==
    IF i = 0 THEN [q |-> << >>, r |-> r]
    ELSE LET cur  == r * Base + a[i]
             rest == DivSmallFrom(a, k, i - 1, cur % k)
         IN  [q |-> rest.q \o << cur \div k >>, r |-> rest.r]

BigDivSmall(a, k) ==
    LET d == DivSmallFrom(a, k, Len(a), 0)
    IN  [q |-> Trim(d.q), r |-> d.r]

RECURSIVE SmallBits(_)
SmallBits(n) == IF n = 0 THEN 0 ELSE 1 + SmallBits(n \div 2)

BitLen(a) ==
    IF a = << >> THEN 0
    ELSE LimbBits * (Len(a) - 1) + SmallBits(a[Len(a)])

BigOfSmall(n) == IF n = 0 THEN << >> ELSE << n >>

\* a * 2^n
BigShl(a, n) == ShlLimbs(BigMulSmall(a, 2 ^ (n % LimbBits)), n \div LimbBits)

\* floor(a / 2^n)
BigShr(a, n) ==
    LET k == n \div LimbBits
    IN  IF k >= Len(a) THEN << >>
        ELSE BigDivSmall(SubSeq(a, k + 1, Len(a)), 2 ^ (n % LimbBits)).q

RECURSIVE CmpFrom(_, _, _)
CmpFrom(a, b, i) ==
    IF i = 0 THEN 0
    ELSE IF a[i] < b[i] THEN -1
    ELSE IF a[i] > b[i] THEN 1
    ELSE CmpFrom(a, b, i - 1)

\* -1, 0 or 1 as a < b, a = b, a > b
BigCmp(a, b) ==
    IF Len(a) < Len(b) THEN -1
    ELSE IF Len(a) > Len(b) THEN 1
    ELSE CmpFrom(a, b, Len(a))

BigOdd(a) == a # << >> /\ a[1] % 2 = 1

(***************************************************************************)
(* A non-negative double: zero, or m * 2^e with 2^52 <= m < 2^53.          *)
(***************************************************************************)
MantBits == 53

FZero == [m |-> << >>, e |-> 0]

\* the double nearest to n * 2^e (n > 0), ties to even
FRound(n, e) ==
    LET L == BitLen(n)
    IN  IF L <= MantBits
        THEN [m |-> BigShl(n, MantBits - L), e |-> e - (MantBits - L)]
        ELSE LET s    == L - MantBits
                 q    == BigShr(n, s)
                 r    == BigSub(n, BigShl(q, s))
                 half == BigShl(<< 1 >>, s - 1)
                 c    == BigCmp(r, half)
                 up   == c = 1 \/ (c = 0 /\ BigOdd(q))
                 q2   == IF up THEN BigAdd(q, << 1 >>) ELSE q
             IN  IF BitLen(q2) > MantBits
                 THEN [m |-> BigShr(q2, 1), e |-> e + s + 1]
                 ELSE [m |-> q2, e |-> e + s]

\* int -> float, for 0 <= n < Base
FOfInt(n) == IF n = 0 THEN FZero ELSE FRound(<< n >>, 0)

GuardBits == 70

\* Python's a / b on ints (correctly rounded), for 0 <= a, 0 < b < Base
FDiv(a, b) ==
    IF a = 0 THEN FZero
    ELSE LET d == BigDivSmall(BigShl(BigOfSmall(a), GuardBits), b)
             n == BigAdd(BigShl(d.q, 1), IF d.r = 0 THEN << >> ELSE << 1 >>)
         IN  FRound(n, 0 - GuardBits - 1)

\* -1, 0, 1 comparison of two doubles
FCmp(x, y) ==
    IF x.m = << >> THEN (IF y.m = << >> THEN 0 ELSE -1)
    ELSE IF y.m = << >> THEN 1
    ELSE IF x.e < y.e THEN -1
    ELSE IF x.e > y.e THEN 1
    ELSE BigCmp(x.m, y.m)

FGt(x, y) == FCmp(x, y) = 1

FLe(x, y) == FCmp(x, y) # 1

\* x - y for doubles x >= y >= 0
FSub(x, y) ==
    IF y.m = << >> THEN x
    ELSE LET e == IF x.e < y.e THEN x.e ELSE y.e
             n == BigSub(BigShl(x.m, x.e - e), BigShl(y.m, y.e - e))
         IN  IF n = << >> THEN FZero ELSE FRound(n, e)

FAdd(x, y) ==
    IF x.m = << >> THEN y
    ELSE IF y.m = << >> THEN x
    ELSE LET e == IF x.e < y.e THEN x.e ELSE y.e
         IN  FRound(BigAdd(BigShl(x.m, x.e - e), BigShl(y.m, y.e - e)), e)

FMul(x, y) ==
    IF x.m = << >> \/ y.m = << >> THEN FZero
    ELSE FRound(BigMul(x.m, y.m), x.e + y.e)

FOne == FOfInt(1)

\* the float literals 0.6, 0.4 and 0.3: the doubles nearest to 6/10, 4/10, 3/10
Lit06 == FDiv(6, 10)

Lit04 == FDiv(4, 10)

Lit03 == FDiv(3, 10)

(***************************************************************************)
(* Part 2.  Text.  A str is a sequence of one-character strings.           *)
(***************************************************************************)
LowerLetters ==
    << "a", "b", "c", "d", "e", "f", "g", "h", "i", "j", "k", "l", "m",
       "n", "o", "p", "q", "r", "s", "t", "u", "v", "w", "x", "y", "z" >>

UpperLetters ==
    << "A", "B", "C", "D", "E", "F", "G", "H", "I", "J", "K", "L", "M",
       "N", "O", "P", "Q", "R", "S", "T", "U", "V", "W", "X", "Y", "Z" >>

Digits == { "0", "1", "2", "3", "4", "5", "6", "7", "8", "9" }

Range(f) == { f[i] : i \in DOMAIN f }

\* [a-zA-Z]
IsLetter(c) == c \in Range(LowerLetters) \/ c \in Range(UpperLetters)

\* \w
IsWordChar(c) == IsLetter(c) \/ c \in Digits \/ c = "_"

\* what str.split() and str.strip() treat as whitespace
IsSpace(c) == c \in { " ", "\t", "\n", "\r" }

LowerChar(c) ==
    IF c \in Range(UpperLetters)
    THEN LowerLetters[CHOOSE i \in DOMAIN UpperLetters : UpperLetters[i] = c]
    ELSE c

\* str.lower()
Lower(s) == [i \in DOMAIN s |-> LowerChar(s[i])]

\* the first position from i on that holds whitespace (or not), or Len(s) + 1
FirstSpace(s, i) ==
    CHOOSE j \in i..(Len(s) + 1) :
        /\ j = Len(s) + 1 \/ IsSpace(s[j])
        /\ \A k \in i..(j - 1) : ~IsSpace(s[k])

FirstNonSpace(s, i) ==
    CHOOSE j \in i..(Len(s) + 1) :
        /\ j = Len(s) + 1 \/ ~IsSpace(s[j])
        /\ \A k \in i..(j - 1) : IsSpace(s[k])

\* str.split(): the maximal runs of non-whitespace characters, in order
RECURSIVE SplitFrom(_, _)
SplitFrom(s, i) ==
    LET start == FirstNonSpace(s, i)
        stop  == FirstSpace(s, start)
    IN  IF start > Len(s) THEN << >>
        ELSE << SubSeq(s, start, stop - 1) >> \o SplitFrom(s, stop)

Split(s) == SplitFrom(s, 1)

\* sep.join(parts)
RECURSIVE Join(_, _)
Join(parts, sep) ==
    IF parts = << >> THEN << >>
    ELSE IF Len(parts) = 1 THEN parts[1]
    ELSE parts[1] \o sep \o Join(Tail(parts), sep)

\* str.strip()
RECURSIVE LStrip(_)
LStrip(s) ==
    IF s # << >> /\ IsSpace(s[1]) THEN LStrip(Tail(s)) ELSE s

RECURSIVE RStrip(_)
RStrip(s) ==
    IF s # << >> /\ IsSpace(s[Len(s)])
    THEN RStrip(SubSeq(s, 1, Len(s) - 1)) ELSE s

Strip(s) == RStrip(LStrip(s))

\* the regex word boundary \b before position p (1-based) of s
AtBoundary(s, p) ==
    LET before == p > 1 /\ IsWordChar(s[p - 1])
        after  == p <= Len(s) /\ IsWordChar(s[p])
    IN  before # after

\* length of the run of [a-zA-Z] starting at p
RECURSIVE LetterRun(_, _)
LetterRun(s, p) ==
    IF p <= Len(s) /\ IsLetter(s[p]) THEN 1 + LetterRun(s, p + 1) ELSE 0

MinKeywordLen == 4

\* the length matched by \b[a-zA-Z]{4,}\b at p, or 0: the greedy run, then
\* shorter ones down to 4 letters, until \b holds after the match
RECURSIVE MatchLen(_, _, _)
MatchLen(s, p, n) ==
    IF n < MinKeywordLen THEN 0
    ELSE IF AtBoundary(s, p + n) THEN n
    ELSE MatchLen(s, p, n - 1)

\* re.findall(pattern, s): non-overlapping matches, left to right
RECURSIVE FindallFrom(_, _, _)
FindallFrom(s, p, acc) ==
    IF p > Len(s) THEN acc
    ELSE LET n == IF AtBoundary(s, p) THEN MatchLen(s, p, LetterRun(s, p))
                  ELSE 0
         IN  IF n = 0 THEN FindallFrom(s, p + 1, acc)
             ELSE FindallFrom(s, p + n, Append(acc, SubSeq(s, p, p + n - 1)))

Findall(s) == FindallFrom(s, 1, << >>)

\* set(re.findall(pattern, text.lower()))
Keywords(text) == Range(Findall(Lower(text)))

\* url.startswith(prefix)
StartsWith(s, prefix) ==
    Len(s) >= Len(prefix) /\ SubSeq(s, 1, Len(prefix)) = prefix

Http == << "h", "t", "t", "p", ":", "/", "/" >>

Https == << "h", "t", "t", "p", "s", ":", "/", "/" >>

\* app.py lines 238-239
NormalizeUrl(url) ==
    IF StartsWith(url, Http) \/ StartsWith(url, Https) THEN url
    ELSE Https \o url

(***************************************************************************)
(* Part 3.  improved_similarity and the reference corpus.                  *)
(***************************************************************************)
\* pandas' missing value, and a body_text cell holding it
NaN == "nan"

NaText == << NaN >>

\* pd.isna(cell)
IsNa(cell) == cell = NaText \/ cell = NaN

Abs(x) == IF x < 0 THEN 0 - x ELSE x

Max3(a, b, c) ==
    IF a >= b /\ a >= c THEN a ELSE IF b >= c THEN b ELSE c

\* 1 - abs(target_word_count - existing_wc) / max(target_word_count, existing_wc, 1)
wc_similarity(target_word_count, existing_wc) ==
    FSub(FOne, FDiv(Abs(target_word_count - existing_wc),
                    Max3(target_word_count, existing_wc, 1)))

keyword_overlap(text, existing_text) ==
    LET target_words   == Keywords(text)
        existing_words == Keywords(existing_text)
    IN  IF target_words # {} /\ existing_words # {}
        THEN FDiv(Cardinality(target_words \cap existing_words),
                  Cardinality(target_words \cup existing_words))
        ELSE FZero

\* the blend with the second weight mistyped
BlendSameWeights(wcs, overlap) == FAdd(FMul(wcs, Lit06), FMul(overlap, Lit06))

\* (wc_similarity * 0.6) + (keyword_overlap * 0.4)
Blend(wcs, overlap) == FAdd(FMul(wcs, Lit06), FMul(overlap, Lit04))

combined_similarity(text, existing_text) ==
    Blend(wc_similarity(Len(Split(text)), Len(Split(existing_text))),
          keyword_overlap(text, existing_text))

\* combined_similarity > 0.3
PassesCutoff(similarity) == FGt(similarity, Lit03)

\* row.get('quality_label', 'Unknown')
RowQuality(row) ==
    IF "quality_label" \in DOMAIN row THEN row.quality_label ELSE "Unknown"

\* the texts the model draws targets and corpus rows from
TextA == << "a", "b", "c", "d", " ", "x" >>

TextB == << "a", "b", "c", "d", "1", " ", "e", "f", "g", "h", "-", "I", "J", "K", "L" >>

TextSame == << "x", " ", " ", "A", "B", "C", "D" >>

TextHalf == << "e", "f", "g", "h" >>

TextKey == << "a", "b", "c", "d" >>

TextRound ==
    << "a", "b", "c", "d", " ", "e", "f", "g", "h", " ", "i", "j", "k", "l",
       " ", "m", "n", "o", "p", " ", "x", " ", "x" >>

TargetTexts == { << >>, TextA, TextB }

BodyTexts == { << >>, TextSame, TextHalf, TextKey, TextRound, NaText }

\* every score the model needs, computed once (@@ makes TLC build the table)
SimilarityCache ==
    [p \in TargetTexts \X (BodyTexts \ { NaText }) |->
        combined_similarity(p[1], p[2])] @@ << >>

\* the two factors of every score, likewise
FactorCache ==
    [p \in TargetTexts \X (BodyTexts \ { NaText }) |->
        [wcs     |-> wc_similarity(Len(Split(p[1])), Len(Split(p[2]))),
         overlap |-> keyword_overlap(p[1], p[2])]] @@ << >>

\* word count and keyword set of every text
ProfileCache ==
    [t \in TargetTexts \cup (BodyTexts \ { NaText }) |->
        [wc |-> Len(Split(t)), words |-> Keywords(t)]] @@ << >>

\* row['url'] == target_url
IsSelfMatchNever(row, url) == FALSE

IsSelfMatch(row, url) == row.url = url

\* one pass of the loop over existing_data.iterrows(), from row i on
RECURSIVE ScanRows(_, _, _, _)
ScanRows(url, text, data, i) ==
    IF i > Len(data) THEN << >>
    ELSE LET row  == data[i]
             rest == ScanRows(url, text, data, i + 1)
         IN  IF IsSelfMatch(row, url) THEN rest
             ELSE IF IsNa(row.body_text) THEN rest
             ELSE LET similarity == SimilarityCache[<< text, row.body_text >>]
                  IN  IF PassesCutoff(similarity)
                      THEN << [url        |-> row.url,
                               similarity |-> similarity,
                               word_count |-> Len(Split(row.body_text)),
                               quality    |-> RowQuality(row)] >> \o rest
                      ELSE rest

\* a descending sort that is not stable: x goes before its equals
RECURSIVE InsertDescUnstable(_, _)
InsertDescUnstable(s, x) ==
    IF s = << >> THEN << x >>
    ELSE IF FLe(s[1].similarity, x.similarity) THEN << x >> \o s
    ELSE << s[1] >> \o InsertDescUnstable(Tail(s), x)

\* where list.sort(key=similarity, reverse=True) puts x among the sorted s:
\* after every entry that is not smaller (the sort is stable)
RECURSIVE InsertDesc(_, _)
InsertDesc(s, x) ==
    IF s = << >> THEN << x >>
    ELSE IF FGt(x.similarity, s[1].similarity) THEN << x >> \o s
    ELSE << s[1] >> \o InsertDesc(Tail(s), x)

RECURSIVE SortDesc(_)
SortDesc(s) ==
    IF s = << >> THEN s
    ELSE InsertDesc(SortDesc(SubSeq(s, 1, Len(s) - 1)), s[Len(s)])

\* s[:n]
Slice(s, n) ==
    IF n >= 0 THEN SubSeq(s, 1, IF n < Len(s) THEN n ELSE Len(s))
    ELSE SubSeq(s, 1, IF Len(s) + n > 0 THEN Len(s) + n ELSE 0)

\* improved_similarity without its first two lines
improved_similarity_unguarded(url, text, data, n) ==
    Slice(SortDesc(ScanRows(url, text, data, 1)), n)

improved_similarity(url, text, data, n) ==
    IF text = << >> THEN << >>
    ELSE Slice(SortDesc(ScanRows(url, text, data, 1)), n)

\* the number of rows the loop of improved_similarity visits
RowsVisited(text, data) == IF text = << >> THEN 0 ELSE Len(data)

\* the rows of right whose url is u, in order
MatchesOf(right, u) == SelectSeq(right, LAMBDA r : r.url = u)

\* one left row joined to its matches in the features table
JoinRow(left_row, table) ==
    LET hits == MatchesOf(table.rows, left_row.url)
    IN  IF ~table.has_quality
        THEN [i \in 1..(IF hits = << >> THEN 1 ELSE Len(hits)) |-> left_row]
        ELSE IF hits = << >>
        THEN << [url |-> left_row.url, body_text |-> left_row.body_text,
                 quality_label |-> NaN] >>
        ELSE [i \in 1..Len(hits) |->
                [url |-> left_row.url, body_text |-> left_row.body_text,
                 quality_label |-> hits[i].quality_label]]

\* left.merge(table, on='url', how='left')
RECURSIVE Merge(_, _)
Merge(left, table) ==
    IF left = << >> THEN << >>
    ELSE JoinRow(left[1], table) \o Merge(Tail(left), table)

MaxRows == 2

MaxN == 2

UrlA == Https \o << "a" >>

UrlB == Https \o << "b" >>

UrlC == Https \o << "c" >>

Urls == { UrlA, UrlB }

TargetUrls == { UrlA, UrlC }

QualityLabels == { "Low", "Medium", "High" }

RECURSIVE SeqsUpTo(_, _)
SeqsUpTo(S, n) ==
    IF n = 0 THEN { << >> }
    ELSE LET shorter == SeqsUpTo(S, n - 1)
         IN  shorter \cup { Append(s, x) : s \in shorter, x \in S }

ContentRows == [url : Urls, body_text : BodyTexts]

\* features.csv: with its quality_label column and some rows, or without it
FeatureTables ==
    { [has_quality |-> TRUE,  rows |-> << >>],
      [has_quality |-> TRUE,  rows |-> << [url |-> UrlA, quality_label |-> "High"],
                                          [url |-> UrlB, quality_label |-> "Medium"] >>],
      [has_quality |-> TRUE,  rows |-> << [url |-> UrlA, quality_label |-> "Medium"],
                                          [url |-> UrlA, quality_label |-> "Low"] >>],
      [has_quality |-> FALSE, rows |-> << [url |-> UrlA] >>] }

(***************************************************************************)
(* Part 4.  scrape_and_parse_url.  A response is what requests.get gave:   *)
(* an exception, or a status, the length of the body in bytes, and the     *)
(* document BeautifulSoup parses from it: an optional <title> and the      *)
(* elements of its body in document order, each with its own text.         *)
(***************************************************************************)
ByTag(name) == [by |-> "tag", name |-> name]

ByRole(name) == [by |-> "role", name |-> name]

ByClass(name) == [by |-> "class", name |-> name]

\* app.py's content_selectors
content_selectors ==
    << ByTag("article"), ByTag("main"), ByRole("main"), ByClass("content"),
       ByClass("post-content"), ByClass("article-content"),
       ByClass("entry-content"), ByTag("section"), ByClass("main-content") >>

\* utils/parser.py's selectors
parser_selectors ==
    << ByTag("article"), ByTag("main"), ByClass("content"),
       ByClass("post-content"), ByTag("p") >>

\* whether a CSS selector matches an element
Matches(elem, selector) ==
    CASE selector.by = "tag"   -> elem.tag = selector.name
      [] selector.by = "role"  -> elem.role = selector.name
      [] selector.by = "class" -> elem.class = selector.name

\* soup.select(selector): the matching elements, in document order
Select(doc, selector) ==
    SelectSeq(doc.elements, LAMBDA elem : Matches(elem, selector))

\* [elem.get_text().strip() for elem in elements if elem.get_text().strip()]
StrippedNonEmpty(elements) ==
    SelectSeq([i \in DOMAIN elements |-> Strip(elements[i].text)],
              LAMBDA t : t # << >>)

\* [elem.get_text().strip() for elem in elements]
StrippedAll(elements) == [i \in DOMAIN elements |-> Strip(elements[i].text)]

Space == << " " >>

\* soup.get_text(): every string of the document, the title's included
RECURSIVE ConcatTexts(_)
ConcatTexts(elements) ==
    IF elements = << >> THEN << >>
    ELSE elements[1].text \o ConcatTexts(Tail(elements))

DocumentText(doc) ==
    (IF doc.has_title THEN doc.title ELSE << >>) \o ConcatTexts(doc.elements)

\* soup.title.string if soup.title else ""
TitleOf(doc) == IF doc.has_title THEN doc.title ELSE << >>

ContentThreshold == 200

\* len(text) > 200
LongEnough(text) == Len(text) > ContentThreshold

\* the loop over content_selectors from the k-th on: the text of the first
\* selector that matches elements whose joined text is long enough, else ""
RECURSIVE FirstSelectorText(_, _)
FirstSelectorText(doc, k) ==
    IF k > Len(content_selectors) THEN << >>
    ELSE LET elements == Select(doc, content_selectors[k])
             text     == Join(StrippedNonEmpty(elements), Space)
         IN  IF elements # << >> /\ LongEnough(text) THEN text
             ELSE FirstSelectorText(doc, k + 1)

\* ' '.join(body_text.split())
Clean(text) == Join(Split(text), Space)

\* app.py lines 103-137: title, body_text, word_count of a parsed document
ExtractContent(doc) ==
    LET chosen     == FirstSelectorText(doc, 1)
        paragraphs == Join(StrippedNonEmpty(Select(doc, ByTag("p"))), Space)
        with_p     == IF chosen = << >> THEN paragraphs ELSE chosen
        with_doc   == IF with_p = << >> THEN DocumentText(doc) ELSE with_p
        body_text  == Clean(with_doc)
    IN  [title |-> TitleOf(doc), body_text |-> body_text,
         word_count |-> Len(Split(body_text))]

\* return "", "", 0
ZeroContent == [title |-> << >>, body_text |-> << >>, word_count |-> 0]

\* response.raise_for_status() raises
IsHttpError(status) == status >= 400 /\ status < 600

MinContentBytes == 1000

\* len(response.content) < 1000
TooSmall(resp) == resp.length < MinContentBytes

\* the try block of app.py's scrape_and_parse_url: what it returns, or that
\* an exception left it
TryScrape(resp) ==
    IF resp.outcome = "exception" THEN [raised |-> TRUE]
    ELSE IF IsHttpError(resp.status) THEN [raised |-> TRUE]
    ELSE IF TooSmall(resp) THEN [raised |-> FALSE, value |-> ZeroContent]
    ELSE [raised |-> FALSE, value |-> ExtractContent(resp.doc)]

\* app.py's scrape_and_parse_url: `except Exception` reports and returns zeros
scrape_and_parse_url(resp) ==
    LET attempt == TryScrape(resp)
    IN  IF attempt.raised THEN ZeroContent ELSE attempt.value

ParserThreshold == 100

\* utils/parser.py lines 23-29, from the k-th selector on
RECURSIVE ParserFirstSelectorText(_, _)
ParserFirstSelectorText(doc, k) ==
    IF k > Len(parser_selectors) THEN << >>
    ELSE LET elements == Select(doc, parser_selectors[k])
             text     == Join(StrippedAll(elements), Space)
         IN  IF elements # << >> /\ Len(text) > ParserThreshold THEN text
             ELSE ParserFirstSelectorText(doc, k + 1)

\* utils/parser.py lines 17-37
ParserExtractContent(doc) ==
    LET chosen    == ParserFirstSelectorText(doc, 1)
        with_doc  == IF chosen = << >> THEN DocumentText(doc) ELSE chosen
        body_text == Clean(with_doc)
    IN  [title |-> TitleOf(doc), body_text |-> body_text,
         word_count |-> Len(Split(body_text))]

\* the try block of utils/parser.py's scrape_and_parse_url
ParserTryScrape(resp) ==
    IF resp.outcome = "exception" THEN [raised |-> TRUE]
    ELSE IF IsHttpError(resp.status) THEN [raised |-> TRUE]
    ELSE [raised |-> FALSE, value |-> ParserExtractContent(resp.doc)]

\* utils/parser.py's scrape_and_parse_url
parser_scrape_and_parse_url(resp) ==
    LET attempt == ParserTryScrape(resp)
    IN  IF attempt.raised THEN ZeroContent ELSE attempt.value

(***************************************************************************)
(* Part 5.  calculate_features (app.py and utils/features.py are the same  *)
(* code) and the steps of an analysis run.                                 *)
(***************************************************************************)
IsTerminator(c) == c \in { ".", "!", "?" }

\* len(re.findall(r'[.!?]+', body_text)): the number of runs of terminators
RECURSIVE CountRuns(_, _, _)
CountRuns(s, i, inside) ==
    IF i > Len(s) THEN 0
    ELSE IF IsTerminator(s[i])
         THEN (IF inside THEN 0 ELSE 1) + CountRuns(s, i + 1, TRUE)
         ELSE CountRuns(s, i + 1, FALSE)

ThinThreshold == 500

\* the threshold test with <= in place of <
IsThinAtOrBelow(word_count) == word_count <= ThinThreshold

\* word_count < 500
IsThin(word_count) == word_count < ThinThreshold

MinReadableWords == 10

\* flesch is what textstat's flesch_reading_ease returns for body_text
FeaturesOf(body_text, word_count, flesch) ==
    [sentence_count |-> IF body_text # << >> THEN CountRuns(body_text, 1, FALSE)
                        ELSE 0,
     readability    |-> IF body_text # << >>
                           /\ Len(Split(body_text)) > MinReadableWords
                        THEN flesch ELSE 0,
     is_thin        |-> IsThin(word_count)]

\* app.py's calculate_features
calculate_features(body_text, word_count, flesch) ==
    FeaturesOf(body_text, word_count, flesch)

\* utils/features.py's calculate_features
features_calculate_features(body_text, word_count, flesch) ==
    FeaturesOf(body_text, word_count, flesch)

\* `if word_count == 0` misread as a test for a missing text
ExtractionFailedIfNone(word_count) == word_count < 0

\* if word_count == 0
ExtractionFailed(word_count) == word_count = 0

\* quality_emoji = {"High": ..., "Medium": ..., "Low": ...}
QualityEmojiKeys == { "High", "Medium", "Low" }

AppTopN == 5

(***************************************************************************)
(* The state of the running program.                                       *)
(***************************************************************************)
VARIABLES
    pc,              \* where the program is
    existing_data,   \* data/features.csv: [has_quality, rows]
    extracted_data,  \* data/extracted_content.csv: rows [url, body_text]
    enhanced_data,   \* extracted_data.merge(existing_data, on='url', how='left')
    target_url,      \* arguments of the last improved_similarity call
    target_text,
    top_n,
    similar_pages,   \* what improved_similarity returned
    rows_examined,   \* how many corpus rows its loop visited
    response,        \* what requests.get produced for the last scrape
    page,            \* what scrape_and_parse_url returned
    features,        \* what calculate_features returned, with its arguments
    quality_label,   \* what predict_quality returned
    calls            \* the functions the current analysis run has invoked

vars ==
    << pc, existing_data, extracted_data, enhanced_data, target_url,
       target_text, top_n, similar_pages, rows_examined, response, page,
       features, quality_label, calls >>

data_vars == << existing_data, extracted_data, enhanced_data >>

query_vars == << target_url, target_text, top_n, similar_pages, rows_examined >>

NoTable == [has_quality |-> TRUE, rows |-> << >>]

NoPage == [title |-> << >>, body_text |-> << >>, word_count |-> 0]

NoResponse == [outcome |-> "none"]

NoFeatures ==
    [body_text |-> << >>, word_count |-> 0, sentence_count |-> 0,
     readability |-> 0, is_thin |-> TRUE]

(***************************************************************************)
(* SpecSim: the corpus is loaded, then improved_similarity is called with  *)
(* every target and N.                                                     *)
(***************************************************************************)
SimInit ==
    /\ pc = "start"
    /\ existing_data = NoTable
    /\ extracted_data = << >>
    /\ enhanced_data = << >>
    /\ target_url = << >>
    /\ target_text = << >>
    /\ top_n = 0
    /\ similar_pages = << >>
    /\ rows_examined = 0
    /\ response = NoResponse
    /\ page = NoPage
    /\ features = NoFeatures
    /\ quality_label = "none"
    /\ calls = << >>

\* load_data() and the merge, at start-up
LoadData ==
    /\ pc = "start"
    /\ \E content \in SeqsUpTo(ContentRows, MaxRows), table \in FeatureTables :
          /\ extracted_data' = content
          /\ existing_data' = table
          /\ enhanced_data' = Merge(content, table)
    /\ pc' = "ready"
    /\ UNCHANGED << query_vars, response, page, features, quality_label, calls >>

\* a call improved_similarity(url, text, enhanced_data, top_n=n)
CallSimilarity ==
    /\ pc = "ready"
    /\ \E url \in TargetUrls, text \in TargetTexts, n \in 0..MaxN :
          /\ target_url' = url
          /\ target_text' = text
          /\ top_n' = n
          /\ similar_pages' = improved_similarity(url, text, enhanced_data, n)
          /\ rows_examined' = RowsVisited(text, enhanced_data)
    /\ pc' = "answered"
    /\ UNCHANGED << data_vars, response, page, features, quality_label, calls >>

\* the next call; the loaded data stays
NextRequest ==
    /\ pc = "answered"
    /\ pc' = "ready"
    /\ target_url' = << >>
    /\ target_text' = << >>
    /\ top_n' = 0
    /\ similar_pages' = << >>
    /\ rows_examined' = 0
    /\ UNCHANGED << data_vars, response, page, features, quality_label, calls >>

SimNext == LoadData \/ CallSimilarity \/ NextRequest

SpecSim == SimInit /\ [][SimNext]_vars

(***************************************************************************)
(* Claims about improved_similarity, checked under SpecSim.                *)
(***************************************************************************)
Answered == pc = "answered"

\* the corpus rows the loop scores: none for the empty target, else those
\* that are not the target's own and have a text
Candidates ==
    IF target_text = << >> THEN {}
    ELSE { i \in DOMAIN enhanced_data :
             /\ enhanced_data[i].url # target_url
             /\ ~IsNa(enhanced_data[i].body_text) }

ScoreOf(i) == SimilarityCache[<< target_text, enhanced_data[i].body_text >>]

FactorsOf(i) == FactorCache[<< target_text, enhanced_data[i].body_text >>]

RowProfile(i) == ProfileCache[enhanced_data[i].body_text]

Passing == { i \in Candidates : FGt(ScoreOf(i), Lit03) }

\* the place of passing row i when all passing rows are listed by falling
\* score, rows of equal score in corpus order
Rank(i) ==
    1 + Cardinality({ j \in Passing :
                        \/ FGt(ScoreOf(j), ScoreOf(i))
                        \/ ScoreOf(j) = ScoreOf(i) /\ j < i })

Min(a, b) == IF a < b THEN a ELSE b

\* result entry k was made from corpus row i
MadeFrom(k, i) ==
    /\ similar_pages[k].url = enhanced_data[i].url
    /\ similar_pages[k].word_count = RowProfile(i).wc
    /\ similar_pages[k].similarity = ScoreOf(i)

\* C1: no entry returned by improved_similarity has the target URL, whatever
\* the texts and however many corpus rows carry that URL.
C1_SelfMatchExcluded ==
    Answered =>
        \A k \in DOMAIN similar_pages : similar_pages[k].url # target_url

\* C1's case: two corpus rows carry the target URL, one of them would score
\* 1.0, and other rows were returned
C1_Witness ==
    /\ Answered
    /\ similar_pages # << >>
    /\ Cardinality({ i \in DOMAIN enhanced_data :
                       enhanced_data[i].url = target_url }) >= 2
    /\ \E i \in DOMAIN enhanced_data :
          /\ enhanced_data[i].url = target_url
          /\ ~IsNa(enhanced_data[i].body_text)
          /\ ScoreOf(i) = FOne

\* C4: for N >= 0 the result has min(N, number of passing rows) entries, is
\* ordered by non-increasing similarity, and its k-th entry is the passing
\* row of rank k (equal scores ranked in corpus order).
C4_RankedAndTruncated ==
    (Answered /\ top_n >= 0) =>
        /\ Len(similar_pages) = Min(top_n, Cardinality(Passing))
        /\ Len(similar_pages) <= top_n
        /\ \A k \in 1..(Len(similar_pages) - 1) :
              FLe(similar_pages[k + 1].similarity, similar_pages[k].similarity)
        /\ \A i \in Passing :
              Rank(i) <= Len(similar_pages) => MadeFrom(Rank(i), i)

\* C4's case: two passing rows of equal score and different urls, the earlier
\* one the last entry returned, the later one cut off by N
C4_Witness ==
    /\ Answered
    /\ top_n >= 1
    /\ \E i, j \in Passing :
          /\ i < j
          /\ ScoreOf(i) = ScoreOf(j)
          /\ enhanced_data[i].url # enhanced_data[j].url
          /\ Rank(i) = Len(similar_pages)
          /\ Rank(i) > 1

\* 0.6 * wc_similarity + 0.4 * keyword_overlap > 0.3 in exact arithmetic, for
\* wc_similarity = 1 - d/m and keyword_overlap = common/all
ExactlyAboveCutoff(text, existing_text) ==
    LET t      == ProfileCache[text]
        x      == ProfileCache[existing_text]
        d      == Abs(t.wc - x.wc)
        m      == Max3(t.wc, x.wc, 1)
        both   == t.words # {} /\ x.words # {}
        common == IF both THEN Cardinality(t.words \cap x.words) ELSE 0
        all    == IF both THEN Cardinality(t.words \cup x.words) ELSE 1
    IN  6 * (m - d) * all + 4 * common * m > 3 * m * all

\* C5: a row whose combined similarity 0.6 * wc_similarity + 0.4 * overlap is
\* at most 0.3 never appears in the results: every entry returned was made
\* from a row whose combined similarity exceeds 0.3.
C5_HardCutoff ==
    Answered =>
        \A k \in DOMAIN similar_pages :
            \E i \in Candidates :
                /\ MadeFrom(k, i)
                /\ ExactlyAboveCutoff(target_text, enhanced_data[i].body_text)

\* C5 read on the doubles the code computes: every entry returned stores a
\* similarity above the double 0.3, and a row scoring the double 0.3 exactly
\* (word counts 2 and 1, no common keyword) is left out.
C5_CutoffAsComputed ==
    Answered =>
        /\ \A k \in DOMAIN similar_pages :
              FGt(similar_pages[k].similarity, Lit03)
        /\ \A i \in Candidates :
              FLe(ScoreOf(i), Lit03) =>
                  \A k \in DOMAIN similar_pages : ~MadeFrom(k, i)

\* C6: every stored similarity, and each of its two factors, lies in [0, 1];
\* a row with the target's word count and the target's non-empty keyword set
\* scores exactly 1.0 and heads the result.
SameProfile(i) ==
    /\ RowProfile(i).wc = ProfileCache[target_text].wc
    /\ RowProfile(i).words = ProfileCache[target_text].words
    /\ RowProfile(i).words # {}

InUnit(x) == FLe(FZero, x) /\ FLe(x, FOne)

C6_ScoreRange ==
    Answered =>
        /\ \A k \in DOMAIN similar_pages : InUnit(similar_pages[k].similarity)
        /\ \A i \in Candidates :
              /\ InUnit(FactorsOf(i).wcs)
              /\ InUnit(FactorsOf(i).overlap)
              /\ InUnit(ScoreOf(i))
              /\ SameProfile(i) =>
                    /\ ScoreOf(i) = FOne
                    /\ top_n >= 1 => similar_pages[1].similarity = FOne

\* C6's case: a row written differently from the target (case, spacing, word
\* order) with the same profile was scored and returned, next to a lesser one
C6_Witness ==
    /\ Answered
    /\ Len(similar_pages) >= 2
    /\ similar_pages[2].similarity # FOne
    /\ \E i \in Candidates :
          /\ SameProfile(i)
          /\ enhanced_data[i].body_text # target_text
          /\ MadeFrom(1, i)

\* C8: for the empty target text improved_similarity returns the empty list
\* and visits no corpus row, whatever the corpus and N.
C8_EmptyTarget ==
    (Answered /\ target_text = << >>) =>
        /\ similar_pages = << >>
        /\ rows_examined = 0

\* C8's case: the corpus holds an empty-text row and a null-text row that are
\* not the target's own, and N >= 1
C8_Witness ==
    /\ Answered
    /\ target_text = << >>
    /\ top_n >= 1
    /\ \E i, j \in DOMAIN enhanced_data :
          /\ enhanced_data[i].url # target_url
          /\ enhanced_data[i].body_text = << >>
          /\ enhanced_data[j].url # target_url
          /\ enhanced_data[j].body_text = NaText

\* C10: every entry's quality is Low, Medium, High or "Unknown"; a row without
\* a quality label (no features row matched its url, or no quality_label
\* column) is reported as "Unknown".
C10_QualityField ==
    Answered =>
        \A k \in DOMAIN similar_pages :
            similar_pages[k].quality \in QualityLabels \cup { "Unknown" }

\* C10 for a corpus without the quality_label column: there the default of
\* row.get applies
C10_UnknownWithoutColumn ==
    (Answered /\ ~existing_data.has_quality) =>
        \A k \in DOMAIN similar_pages : similar_pages[k].quality = "Unknown"

(***************************************************************************)
(* SpecScrape: one of the two scrape_and_parse_url functions is called on  *)
(* a response.                                                             *)
(***************************************************************************)
\* n characters of words separated by single spaces, not ending in a space
Filler(n) == [i \in 1..n |-> IF i % 7 = 0 THEN " " ELSE "w"]

ShortText == << " ", "h", "i", " ", " ", "t", "h", "e", "r", "e", "\n" >>

BlankText == << " ", " " >>

ElementTexts ==
    { Filler(ContentThreshold + 1), Filler(ContentThreshold),
      Filler(ParserThreshold), ShortText, BlankText }

ElementKinds ==
    { [tag |-> "article", role |-> "",     class |-> ""],
      [tag |-> "div",     role |-> "main", class |-> ""],
      [tag |-> "div",     role |-> "",     class |-> "content"],
      [tag |-> "section", role |-> "",     class |-> ""],
      [tag |-> "p",       role |-> "",     class |-> ""],
      [tag |-> "div",     role |-> "",     class |-> ""] }

Elements ==
    { [tag |-> k.tag, role |-> k.role, class |-> k.class, text |-> t] :
        k \in ElementKinds, t \in ElementTexts }

MaxElements == 2

PageTitle == << "T", "i", "p", "s" >>

Documents ==
    { [has_title |-> h, title |-> IF h THEN PageTitle ELSE << >>,
       elements |-> e] : h \in BOOLEAN, e \in SeqsUpTo(Elements, MaxElements) }

\* the fewest bytes the HTML of a document takes: its texts and one pair of
\* tags for each element
RECURSIVE TextBytes(_)
TextBytes(elements) ==
    IF elements = << >> THEN 0
    ELSE Len(elements[1].text) + Len(elements[1].tag) + Len(elements[1].tag)
         + 5 + TextBytes(Tail(elements))

FewestBytes(doc) == Len(doc.title) + TextBytes(doc.elements)

BodyLengths == { 500, MinContentBytes - 1, MinContentBytes, 4000 }

Statuses == { 200, 404 }

Responses ==
    { [outcome |-> "exception"] } \cup
    { r \in [outcome : { "response" }, status : Statuses,
             length : BodyLengths, doc : Documents] :
        r.length >= FewestBytes(r.doc) }

Idle(at) ==
    /\ pc = at
    /\ existing_data = NoTable
    /\ extracted_data = << >>
    /\ enhanced_data = << >>
    /\ target_url = << >>
    /\ target_text = << >>
    /\ top_n = 0
    /\ similar_pages = << >>
    /\ rows_examined = 0
    /\ response = NoResponse
    /\ page = NoPage
    /\ features = NoFeatures
    /\ quality_label = "none"
    /\ calls = << >>

ScrapeInit == Idle("idle")

\* app.py's scrape_and_parse_url(url), requests.get answering resp
CallScrape ==
    /\ pc = "idle"
    /\ \E resp \in Responses :
          /\ response' = resp
          /\ page' = scrape_and_parse_url(resp)
    /\ pc' = "scraped"
    /\ UNCHANGED << data_vars, query_vars, features, quality_label, calls >>

\* utils/parser.py's scrape_and_parse_url(url), requests.get answering resp
CallParserScrape ==
    /\ pc = "idle"
    /\ \E resp \in Responses :
          /\ response' = resp
          /\ page' = parser_scrape_and_parse_url(resp)
    /\ pc' = "parser_scraped"
    /\ UNCHANGED << data_vars, query_vars, features, quality_label, calls >>

\* the caller has the result; the next call can follow
ScrapeReturn ==
    /\ pc \in { "scraped", "parser_scraped" }
    /\ pc' = "idle"
    /\ response' = NoResponse
    /\ page' = NoPage
    /\ UNCHANGED << data_vars, query_vars, features, quality_label, calls >>

ScrapeNext == CallScrape \/ CallParserScrape \/ ScrapeReturn

SpecScrape == ScrapeInit /\ [][ScrapeNext]_vars

Scraped == pc \in { "scraped", "parser_scraped" }

\* the request failed: it raised, the status is an error, or the body is
\* shorter than 1000 bytes
FetchFailed(resp) ==
    \/ resp.outcome = "exception"
    \/ resp.status >= 400
    \/ resp.length < 1000

\* C2: whichever scrape_and_parse_url is called, a failed request gives
\* ("", "", 0).
C2_FailureSentinel ==
    (Scraped /\ FetchFailed(response)) =>
        /\ page.title = << >>
        /\ page.body_text = << >>
        /\ page.word_count = 0

\* C2 for app.py's function alone
C2_AppFailureSentinel ==
    (pc = "scraped" /\ FetchFailed(response)) =>
        /\ page.title = << >>
        /\ page.body_text = << >>
        /\ page.word_count = 0

\* C2 for utils/parser.py's function when the request raised or the status
\* is an error
C2_ParserErrorSentinel ==
    (/\ pc = "parser_scraped"
     /\ (response.outcome = "exception" \/ response.status >= 400)) =>
        /\ page.title = << >>
        /\ page.body_text = << >>
        /\ page.word_count = 0

\* the space-joined text of the elements a selector matches
MatchedText(doc, selector) ==
    Join(StrippedNonEmpty(Select(doc, selector)), Space)

\* the selectors of a list whose matched text is longer than 200 characters
Qualifying(doc, selectors) ==
    { k \in DOMAIN selectors : Len(MatchedText(doc, selectors[k])) > 200 }

First(S) == CHOOSE k \in S : \A j \in S : k <= j

\* the text the fallback chain of C3 picks, before whitespace is collapsed
ChainText(doc, selectors) ==
    IF Qualifying(doc, selectors) # {}
    THEN MatchedText(doc, selectors[First(Qualifying(doc, selectors))])
    ELSE IF MatchedText(doc, ByTag("p")) # << >>
    THEN MatchedText(doc, ByTag("p"))
    ELSE DocumentText(doc)

\* whitespace-collapsed: no leading, trailing or doubled whitespace, and
\* only spaces
Collapsed(text) ==
    /\ \A i \in DOMAIN text : IsSpace(text[i]) => text[i] = " "
    /\ text # << >> => ~IsSpace(text[1]) /\ ~IsSpace(text[Len(text)])
    /\ \A i \in 1..(Len(text) - 1) : ~(IsSpace(text[i]) /\ IsSpace(text[i + 1]))

Fetched(resp) == resp.outcome = "response" /\ ~FetchFailed(resp)

SelectorsAt(at) ==
    IF at = "scraped" THEN content_selectors ELSE parser_selectors

\* C3: body_text is the text of the first listed selector whose space-joined
\* matched text is longer than 200 characters, else the space-joined <p>
\* text, else the whole document's text; whitespace-collapsed in every case,
\* and word_count is its number of tokens.
C3_FallbackChain ==
    (Scraped /\ Fetched(response)) =>
        /\ Split(page.body_text) = Split(ChainText(response.doc, SelectorsAt(pc)))
        /\ Collapsed(page.body_text)
        /\ page.word_count = Len(Split(page.body_text))

\* C3 for app.py's function alone
C3_AppFallbackChain ==
    (pc = "scraped" /\ Fetched(response)) =>
        /\ Split(page.body_text) = Split(ChainText(response.doc, content_selectors))
        /\ Collapsed(page.body_text)
        /\ page.word_count = Len(Split(page.body_text))

(***************************************************************************)
(* SpecFeat: calculate_features is called, from app.py or from             *)
(* utils/features.py.                                                      *)
(***************************************************************************)
Margin == 5

WordCounts == { 0 } \cup ((ThinThreshold - Margin)..(ThinThreshold + Margin))

Sentence == << "O", "k", ".", ".", ".", " ", "n", "o", "?", "!", " ", "a" >>

\* n one-letter words
Wordy(n) == [i \in 1..(2 * n - 1) |-> IF i % 2 = 0 THEN " " ELSE "a"]

FeatureTexts ==
    { << >>, Sentence, Wordy(MinReadableWords), Wordy(MinReadableWords + 1) }

FleschScores == { 0 - 12, 36, 97 }

FeatInit == Idle("idle")

\* app.py's calculate_features(body_text, word_count)
CallFeatures ==
    /\ pc = "idle"
    /\ \E text \in FeatureTexts, wc \in WordCounts, flesch \in FleschScores :
          features' = [body_text |-> text, word_count |-> wc]
                      @@ calculate_features(text, wc, flesch)
    /\ pc' = "computed"
    /\ UNCHANGED << data_vars, query_vars, response, page, quality_label, calls >>

\* utils/features.py's calculate_features(body_text, word_count)
CallUtilsFeatures ==
    /\ pc = "idle"
    /\ \E text \in FeatureTexts, wc \in WordCounts, flesch \in FleschScores :
          features' = [body_text |-> text, word_count |-> wc]
                      @@ features_calculate_features(text, wc, flesch)
    /\ pc' = "utils_computed"
    /\ UNCHANGED << data_vars, query_vars, response, page, quality_label, calls >>

FeaturesReturn ==
    /\ pc \in { "computed", "utils_computed" }
    /\ pc' = "idle"
    /\ features' = NoFeatures
    /\ UNCHANGED << data_vars, query_vars, response, page, quality_label, calls >>

FeatNext == CallFeatures \/ CallUtilsFeatures \/ FeaturesReturn

SpecFeat == FeatInit /\ [][FeatNext]_vars

Computed == pc \in { "computed", "utils_computed" }

\* C7: is_thin is true exactly when word_count < 500, whatever body_text is.
C7_ThinFlag ==
    Computed =>
        /\ features.word_count < 500 => features.is_thin = TRUE
        /\ features.word_count >= 500 => features.is_thin = FALSE

\* C7's case: word_count is exactly 500 and the text has far fewer words
C7_Witness ==
    /\ Computed
    /\ features.word_count = 500
    /\ features.is_thin = FALSE
    /\ Len(Split(features.body_text)) < 500

(***************************************************************************)
(* SpecFlow: the script of app.py from the click on "Analyze" on, one      *)
(* action for each function the run calls.                                 *)
(***************************************************************************)
UrlInputs == { << >>, << "a" >>, Http \o << "a" >>, Https \o << "a" >> }

Paragraph(text) == [tag |-> "p", role |-> "", class |-> "", text |-> text]

Division(text) == [tag |-> "div", role |-> "", class |-> "", text |-> text]

Page(elements) == [has_title |-> FALSE, title |-> << >>, elements |-> elements]

Ok(length, doc) ==
    [outcome |-> "response", status |-> 200, length |-> length, doc |-> doc]

\* a failed request, an error status, a body under the size floor, two pages
\* with text and two without any
FlowResponses ==
    { [outcome |-> "exception"],
      [outcome |-> "response", status |-> 404, length |-> 4000,
       doc |-> Page(<< Paragraph(TextA) >>)],
      Ok(500, Page(<< Paragraph(TextA) >>)),
      Ok(4000, Page(<< Paragraph(<< " " >> \o TextA \o << "\n" >>) >>)),
      Ok(4000, Page(<< Division(TextB) >>)),
      Ok(4000, Page(<< Paragraph(BlankText) >>)),
      Ok(4000, Page(<< >>)) }

FlowContents ==
    { << >>,
      << [url |-> UrlA, body_text |-> TextSame],
         [url |-> UrlB, body_text |-> TextKey] >> }

\* what model.predict can do: a label, or an exception
PredictOutcomes == QualityLabels \cup { "raises" }

\* start-up: the data are loaded and merged, the page is shown
FlowInit ==
    /\ pc = "idle"
    /\ \E content \in FlowContents, table \in FeatureTables :
          /\ extracted_data = content
          /\ existing_data = table
          /\ enhanced_data = Merge(content, table)
    /\ target_url = << >>
    /\ target_text = << >>
    /\ top_n = 0
    /\ similar_pages = << >>
    /\ rows_examined = 0
    /\ response = NoResponse
    /\ page = NoPage
    /\ features = NoFeatures
    /\ quality_label = "none"
    /\ calls = << >>

\* "Analyze" is clicked with a url typed in: lines 237-239
ClickAnalyze ==
    /\ pc = "idle"
    /\ \E url \in UrlInputs :
          /\ url # << >>
          /\ target_url' = NormalizeUrl(url)
    /\ pc' = "scraping"
    /\ UNCHANGED << data_vars, target_text, top_n, similar_pages,
                    rows_examined, response, page, features, quality_label,
                    calls >>

\* line 242
RunScrape ==
    /\ pc = "scraping"
    /\ \E resp \in FlowResponses :
          /\ response' = resp
          /\ page' = scrape_and_parse_url(resp)
    /\ calls' = Append(calls, "scrape_and_parse_url")
    /\ pc' = "scraped"
    /\ UNCHANGED << data_vars, query_vars, features, quality_label >>

\* lines 244-255
ShowUnableToExtract ==
    /\ pc = "scraped"
    /\ ExtractionFailed(page.word_count)
    /\ calls' = Append(calls, "unable_to_extract_message")
    /\ pc' = "done"
    /\ UNCHANGED << data_vars, query_vars, response, page, features,
                    quality_label >>

\* line 258
RunFeatures ==
    /\ pc = "scraped"
    /\ ~ExtractionFailed(page.word_count)
    /\ \E flesch \in FleschScores :
          features' = [body_text |-> page.body_text,
                       word_count |-> page.word_count]
                      @@ calculate_features(page.body_text, page.word_count,
                                            flesch)
    /\ calls' = Append(calls, "calculate_features")
    /\ pc' = "featured"
    /\ UNCHANGED << data_vars, query_vars, response, page, quality_label >>

\* line 259; an exception ends the run
RunPredict ==
    /\ pc = "featured"
    /\ \E outcome \in PredictOutcomes :
          /\ quality_label' = outcome
          /\ pc' = IF outcome \in QualityEmojiKeys THEN "predicted" ELSE "done"
    /\ calls' = Append(calls, "predict_quality")
    /\ UNCHANGED << data_vars, query_vars, response, page, features >>

\* line 311
RunSimilarity ==
    /\ pc = "predicted"
    /\ target_text' = page.body_text
    /\ top_n' = AppTopN
    /\ similar_pages' =
          improved_similarity(target_url, page.body_text, enhanced_data, AppTopN)
    /\ rows_examined' = RowsVisited(page.body_text, enhanced_data)
    /\ calls' = Append(calls, "improved_similarity")
    /\ pc' = "done"
    /\ UNCHANGED << data_vars, target_url, response, page, features,
                    quality_label >>

\* the run is over; the script waits for the next click
FinishRun ==
    /\ pc = "done"
    /\ pc' = "idle"
    /\ target_url' = << >>
    /\ target_text' = << >>
    /\ top_n' = 0
    /\ similar_pages' = << >>
    /\ rows_examined' = 0
    /\ response' = NoResponse
    /\ page' = NoPage
    /\ features' = NoFeatures
    /\ quality_label' = "none"
    /\ calls' = << >>
    /\ UNCHANGED data_vars

FlowNext ==
    \/ ClickAnalyze
    \/ RunScrape
    \/ ShowUnableToExtract
    \/ RunFeatures
    \/ RunPredict
    \/ RunSimilarity
    \/ FinishRun

SpecFlow == FlowInit /\ [][FlowNext]_vars

IsPrefix(s, t) == Len(s) <= Len(t) /\ SubSeq(t, 1, Len(s)) = s

FailedRun == << "scrape_and_parse_url", "unable_to_extract_message" >>

FullRun ==
    << "scrape_and_parse_url", "calculate_features", "predict_quality",
       "improved_similarity" >>

\* C9: a run whose scrape gave word_count 0 shows the message and calls none
\* of calculate_features, predict_quality, improved_similarity; these are
\* called, in this order, only after a scrape that gave word_count > 0.
C9_ZeroWordCountGates ==
    calls # << >> =>
        /\ page.word_count = 0 =>
              /\ IsPrefix(calls, FailedRun)
              /\ pc = "done" => calls = FailedRun
        /\ page.word_count # 0 =>
              /\ page.word_count > 0
              /\ IsPrefix(calls, FullRun)

\* C9's case: the request succeeded with a full-size body that holds no
\* text, and the run ended with the message
C9_Witness ==
    /\ pc = "done"
    /\ response.outcome = "response"
    /\ response.status = 200
    /\ response.length >= 1000
    /\ page.word_count = 0
    /\ calls = FailedRun

\* a run that went through all three functions
C9_FullRunReached ==
    /\ pc = "done"
    /\ calls = FullRun
    /\ similar_pages # << >>

=============================================================================
